---- MODULE Spec2Model ----
(***************************************************************************)
(* Model of backend/api/orchestrator/utils.py: the bounded retry loop of   *)
(* execute_song_workflow, the two verdict routers and the fail-safe        *)
(* handler, over an abstract filesystem.                                   *)
(*                                                                         *)
(* Environment assumptions (collaborators that are not in the source):     *)
(*  - download_song_handler stages each successfully fetched song under a  *)
(*    path of its own inside temp_dir; paths of different fetches differ;  *)
(*  - os.path.exists / shutil.move / os.remove do what they say on a path  *)
(*    that exists (no I/O error), so the except branches of the routers    *)
(*    and of the fail-safe handler are not entered;                        *)
(*  - os.makedirs may fail on a directory that does not exist yet (the     *)
(*    storage location is not writable);                                   *)
(*  - concurrent runs are coroutines of one event loop: a run gives up     *)
(*    control only at an await, and the routers and the fail-safe handler  *)
(*    contain none, so each of their calls is one step.                    *)
(***************************************************************************)
EXTENDS Integers, Sequences, FiniteSets, TLC

VARIABLES
    pc,                  \* position of the workflow coroutine
    attempt,             \* loop variable of `for attempt in range(1, max_attempts + 1)`
    dirs,                \* the directories that exist
    fs,                  \* the filesystem: the set of file paths that exist
    removed,             \* history: paths that were os.remove()d
    workflow_details,    \* dict of counters and the attempt history
    attempt_details,     \* dict of the attempt being run
    final_attempt_songs, \* fail-safe candidate list
    downloaded_songs,    \* songs returned by download_both_songs
    review_results,      \* list returned by review_all_songs
    verdict_result,      \* dict returned by the verdict router
    failsafe_result,     \* dict returned by handle_failsafe_songs
    result,              \* the dict the workflow returned (NoResult before)
    log,                 \* history: the collaborator/step calls made, in order
    hist,                \* history of the component harness (UnitSpec only)
    runs                 \* the two concurrent runs (PairSpec only)

vars == <<pc, attempt, dirs, fs, removed, workflow_details, attempt_details,
          final_attempt_songs, downloaded_songs, review_results,
          verdict_result, failsafe_result, result, log, hist, runs>>

-----------------------------------------------------------------------------
(* Program constants *)

max_attempts == 3

SongsPerGeneration == 2

temp_dir == "backend/songs/temp"

FAILSAFE == "_FAILSAFE"

verify_final_destination_folder == "backend/songs/final_review"

final_dir == verify_final_destination_folder

\* The verdict strings a router can be handed: the two verdicts, "error",
\* and anything else.
Verdicts == {"continue", "re-roll", "error", "unknown"}

\* Outcome of one download_song_handler call.
FetchOutcomes == {"ok", "fail", "raise"}

-----------------------------------------------------------------------------
(* Paths.  A path is [dir, stem, ext]; the stem is a sequence of tokens so *)
(* that a marker can be appended to it.                                    *)

\* The path download_song_handler(title, intIndex = -k, temp_dir) stages in attempt a.
StagedPath(a, k) ==
    [dir |-> temp_dir, stem |-> <<"song", ToString(a), ToString(-k)>>, ext |-> ".mp3"]

\* os.path.basename
basename(file_path) == [stem |-> file_path.stem, ext |-> file_path.ext]

\* os.path.join(dir, filename)
join(dir, filename) == [dir |-> dir, stem |-> filename.stem, ext |-> filename.ext]

\* os.path.exists
exists(files, file_path) == file_path \in files

\* Mutant: the file is copied, the source stays
move_Copies(files, src, dst) == files \cup {dst}

\* shutil.move(src, dst)
move(files, src, dst) == (files \ {src}) \cup {dst}

\* Mutant: the marker is forgotten
failsafe_filename_NoMarker(original_filename) == original_filename

\* name_part, ext = os.path.splitext(original_filename); f"{name_part}_FAILSAFE{ext}"
failsafe_filename(original_filename) ==
    [stem |-> Append(original_filename.stem, FAILSAFE), ext |-> original_filename.ext]

staging(files) == {f \in files : f.dir = temp_dir}

final_storage(files) == {f \in files : f.dir = final_dir}

-----------------------------------------------------------------------------
(* process_song_verdicts: normal-mode router *)

\* Mutant: a rejected song is counted as deleted but os.remove is not called
NormalBody_KeepsRejected(r, acc) ==
    IF r.verdict = "continue" THEN
        IF exists(acc.fs, r.file_path)
        THEN [acc EXCEPT !.fs = move(acc.fs, r.file_path, join(final_dir, basename(r.file_path))),
                         !.kept_count = @ + 1]
        ELSE acc
    ELSE IF r.verdict = "re-roll" THEN
        IF exists(acc.fs, r.file_path)
        THEN [acc EXCEPT !.deleted_count = @ + 1]
        ELSE acc
    ELSE acc

\* Mutant: a song with an error verdict is removed from staging
NormalBody_DeletesErrored(r, acc) ==
    IF r.verdict = "continue" THEN
        IF exists(acc.fs, r.file_path)
        THEN [acc EXCEPT !.fs = move(acc.fs, r.file_path, join(final_dir, basename(r.file_path))),
                         !.kept_count = @ + 1]
        ELSE acc
    ELSE IF r.verdict = "re-roll" THEN
        IF exists(acc.fs, r.file_path)
        THEN [acc EXCEPT !.fs = @ \ {r.file_path},
                         !.removed = @ \cup {r.file_path},
                         !.deleted_count = @ + 1]
        ELSE acc
    ELSE [acc EXCEPT !.fs = @ \ {r.file_path}, !.removed = @ \cup {r.file_path}]

\* Mutant: the router acts without asking whether the file exists
NormalBody_NoExistsCheck(r, acc) ==
    IF r.verdict = "continue" THEN
        [acc EXCEPT !.fs = move(acc.fs, r.file_path, join(final_dir, basename(r.file_path))),
                    !.kept_count = @ + 1]
    ELSE IF r.verdict = "re-roll" THEN
        [acc EXCEPT !.fs = @ \ {r.file_path},
                    !.removed = @ \cup {r.file_path},
                    !.deleted_count = @ + 1]
    ELSE acc

\* Mutant: an approved song is counted as kept and as deleted
NormalBody_CountsTwice(r, acc) ==
    IF r.verdict = "continue" THEN
        IF exists(acc.fs, r.file_path)
        THEN [acc EXCEPT !.fs = move(acc.fs, r.file_path, join(final_dir, basename(r.file_path))),
                         !.kept_count = @ + 1,
                         !.deleted_count = @ + 1]
        ELSE acc
    ELSE IF r.verdict = "re-roll" THEN
        IF exists(acc.fs, r.file_path)
        THEN [acc EXCEPT !.fs = @ \ {r.file_path},
                         !.removed = @ \cup {r.file_path},
                         !.deleted_count = @ + 1]
        ELSE acc
    ELSE acc

\* One iteration of the loop: acc = [fs, removed, kept_count, deleted_count]
NormalBody(r, acc) ==
    IF r.verdict = "continue" THEN
        IF exists(acc.fs, r.file_path)
        THEN [acc EXCEPT !.fs = move(acc.fs, r.file_path, join(final_dir, basename(r.file_path))),
                         !.kept_count = @ + 1]
        ELSE acc
    ELSE IF r.verdict = "re-roll" THEN
        IF exists(acc.fs, r.file_path)
        THEN [acc EXCEPT !.fs = @ \ {r.file_path},
                         !.removed = @ \cup {r.file_path},
                         !.deleted_count = @ + 1]
        ELSE acc
    ELSE acc

RECURSIVE NormalLoop(_, _, _)
NormalLoop(rs, i, acc) ==
    IF i > Len(rs) THEN acc ELSE NormalLoop(rs, i + 1, NormalBody(rs[i], acc))

process_song_verdicts(rs, files, rem) ==
    NormalLoop(rs, 1, [fs |-> files, removed |-> rem, kept_count |-> 0, deleted_count |-> 0])

-----------------------------------------------------------------------------
(* process_song_verdicts_final_attempt: final-attempt router *)

\* Mutant: the final attempt deletes a rejected song as the normal mode does
FinalBody_Deletes(r, acc) ==
    IF r.verdict = "continue" THEN
        IF exists(acc.fs, r.file_path)
        THEN [acc EXCEPT !.fs = move(acc.fs, r.file_path, join(final_dir, basename(r.file_path))),
                         !.kept_count = @ + 1]
        ELSE acc
    ELSE IF r.verdict = "re-roll" THEN
        IF exists(acc.fs, r.file_path)
        THEN [acc EXCEPT !.fs = @ \ {r.file_path},
                         !.removed = @ \cup {r.file_path},
                         !.preserved_count = @ + 1]
        ELSE acc
    ELSE [acc EXCEPT !.preserved_count = @ + 1]

\* Mutant: an approved song is copied to final storage and stays in staging
FinalBody_CopiesApproved(r, acc) ==
    IF r.verdict = "continue" THEN
        IF exists(acc.fs, r.file_path)
        THEN [acc EXCEPT !.fs = @ \cup {join(final_dir, basename(r.file_path))},
                         !.kept_count = @ + 1]
        ELSE acc
    ELSE IF r.verdict = "re-roll" THEN
        IF exists(acc.fs, r.file_path)
        THEN [acc EXCEPT !.preserved_count = @ + 1]
        ELSE acc
    ELSE [acc EXCEPT !.preserved_count = @ + 1]

\* acc = [fs, removed, kept_count, deleted_count, preserved_count]
FinalBody(r, acc) ==
    IF r.verdict = "continue" THEN
        IF exists(acc.fs, r.file_path)
        THEN [acc EXCEPT !.fs = move(acc.fs, r.file_path, join(final_dir, basename(r.file_path))),
                         !.kept_count = @ + 1]
        ELSE acc
    ELSE IF r.verdict = "re-roll" THEN
        IF exists(acc.fs, r.file_path)
        THEN [acc EXCEPT !.preserved_count = @ + 1]
        ELSE acc
    ELSE [acc EXCEPT !.preserved_count = @ + 1]

RECURSIVE FinalLoop(_, _, _)
FinalLoop(rs, i, acc) ==
    IF i > Len(rs) THEN acc ELSE FinalLoop(rs, i + 1, FinalBody(rs[i], acc))

\* Mutant: the final attempt is routed by the normal-mode loop
process_song_verdicts_final_attempt_AsNormal(rs, files, rem) ==
    NormalLoop(rs, 1, [fs |-> files, removed |-> rem, kept_count |-> 0,
                       deleted_count |-> 0, preserved_count |-> 0])

process_song_verdicts_final_attempt(rs, files, rem) ==
    FinalLoop(rs, 1, [fs |-> files, removed |-> rem, kept_count |-> 0,
                      deleted_count |-> 0, preserved_count |-> 0])

-----------------------------------------------------------------------------
(* handle_failsafe_songs *)

\* Mutant: the handler moves and counts without asking whether the file exists
FailsafeBody_NoExistsCheck(song, acc) ==
    [acc EXCEPT !.fs = move(acc.fs, song.file_path,
                            join(final_dir, failsafe_filename(basename(song.file_path)))),
                !.moved_count = @ + 1]

\* Mutant: a moved song is counted twice
FailsafeBody_CountsTwice(song, acc) ==
    IF exists(acc.fs, song.file_path)
    THEN [acc EXCEPT !.fs = move(acc.fs, song.file_path,
                                 join(final_dir, failsafe_filename(basename(song.file_path)))),
                     !.moved_count = @ + 2]
    ELSE [acc EXCEPT !.error_count = @ + 1]

\* Mutant: the move is made but not counted
FailsafeBody_NoCount(song, acc) ==
    IF exists(acc.fs, song.file_path)
    THEN [acc EXCEPT !.fs = move(acc.fs, song.file_path,
                                 join(final_dir, failsafe_filename(basename(song.file_path))))]
    ELSE [acc EXCEPT !.error_count = @ + 1]

\* acc = [fs, removed, moved_count, error_count]
FailsafeBody(song, acc) ==
    IF exists(acc.fs, song.file_path)
    THEN [acc EXCEPT !.fs = move(acc.fs, song.file_path,
                                 join(final_dir, failsafe_filename(basename(song.file_path)))),
                     !.moved_count = @ + 1]
    ELSE [acc EXCEPT !.error_count = @ + 1]

RECURSIVE FailsafeLoop(_, _, _)
FailsafeLoop(songs, i, acc) ==
    IF i > Len(songs) THEN acc ELSE FailsafeLoop(songs, i + 1, FailsafeBody(songs[i], acc))

handle_failsafe_songs(songs, files, rem) ==
    FailsafeLoop(songs, 1, [fs |-> files, removed |-> rem, moved_count |-> 0, error_count |-> 0])

-----------------------------------------------------------------------------
(* download_both_songs: o1, o2 are the outcomes of the two handler calls   *)

\* The files the two handler calls leave in temp_dir (the second call is
\* not made when the first one raises).
download_staged(a, o1, o2) ==
    (IF o1 = "ok" THEN {StagedPath(a, 1)} ELSE {})
        \cup (IF o1 # "raise" /\ o2 = "ok" THEN {StagedPath(a, 2)} ELSE {})

download_list(a, o1, o2) ==
    (IF o1 = "ok" THEN <<[file_path |-> StagedPath(a, 1), index |-> -1]>> ELSE <<>>)
        \o (IF o2 = "ok" THEN <<[file_path |-> StagedPath(a, 2), index |-> -2]>> ELSE <<>>)

download_both_songs(a, o1, o2) ==
    IF o1 = "raise" \/ o2 = "raise"
    THEN [success |-> FALSE, downloads |-> <<>>]
    ELSE IF Len(download_list(a, o1, o2)) = 0
         THEN [success |-> FALSE, downloads |-> <<>>]
         ELSE [success |-> TRUE, downloads |-> download_list(a, o1, o2)]

\* What one call of the reviewer endpoint does: it answers continue or
\* re-roll, reports an error, or raises.
ReviewOutcomes == {"continue", "re-roll", "error", "raise"}

\* Mutant: the reviewer's exception is not absorbed
call_review_api_Propagates(o) == [success |-> o \in {"continue", "re-roll"}, verdict |-> o]

\* call_review_api: the reviewer's answer, or verdict "error" when the call raised
call_review_api(o) ==
    IF o = "raise"
    THEN [success |-> FALSE, verdict |-> "error"]
    ELSE [success |-> o \in {"continue", "re-roll"}, verdict |-> o]

\* review_all_songs: one review record per downloaded song, in order;
\* os[i] is the outcome of the reviewer call for song i.
review_all_songs(songs, os) ==
    [i \in 1..Len(songs) |->
        [file_path |-> songs[i].file_path, index |-> songs[i].index,
         verdict |-> call_review_api(os[i]).verdict]]

-----------------------------------------------------------------------------
(* execute_song_workflow *)

NoResult == [none |-> TRUE]

NoVerdict == [kept_count |-> 0, deleted_count |-> 0]

NoFailsafe == [moved_count |-> 0, error_count |-> 0]

NewAttemptDetails(a) ==
    [attempt_number |-> a, generation_success |-> FALSE, downloads |-> <<>>,
     reviews |-> <<>>, final_action |-> "None"]

\* One entry of the call history: the step, the attempt it belongs to, and
\* what it yielded (files staged by a fetch, files kept by a routing, files
\* moved by the fail-safe, 1 for a review whose reviewer call raised; 0 for
\* the other steps).
LogEntry(op, a, n) == [op |-> op, attempt |-> a, n |-> n]

Init ==
    /\ pc = "setup"
    /\ attempt = 1
    /\ dirs \in {{}, {temp_dir, final_dir}}
    /\ fs = {}
    /\ removed = {}
    /\ workflow_details = [attempts |-> <<>>, total_songs_generated |-> 0,
                           total_songs_reviewed |-> 0, songs_kept |-> 0, songs_deleted |-> 0]
    /\ attempt_details = NewAttemptDetails(1)
    /\ final_attempt_songs = <<>>
    /\ downloaded_songs = <<>>
    /\ review_results = <<>>
    /\ verdict_result = NoVerdict
    /\ failsafe_result = NoFailsafe
    /\ result = NoResult
    /\ log = <<>>
    /\ hist = <<>>
    /\ runs = <<>>

\* Mutant: the loop runs one iteration too many
NextIteration_OneMore ==
    IF attempt <= max_attempts
    THEN /\ attempt' = attempt + 1
         /\ attempt_details' = NewAttemptDetails(attempt + 1)
         /\ pc' = "generate"
    ELSE /\ attempt' = attempt
         /\ attempt_details' = attempt_details
         /\ pc' = "failsafe"

\* `continue`, or the end of the loop body: the next iteration, or the code
\* after the loop when the range is exhausted.
NextIteration ==
    IF attempt < max_attempts
    THEN /\ attempt' = attempt + 1
         /\ attempt_details' = NewAttemptDetails(attempt + 1)
         /\ pc' = "generate"
    ELSE /\ attempt' = attempt
         /\ attempt_details' = attempt_details
         /\ pc' = "failsafe"

\* Mutant: the new record replaces the history instead of extending it
RecordAttempt_Replaces(wd, ad, action) ==
    [wd EXCEPT !.attempts = <<[ad EXCEPT !.final_action = action]>>]

\* workflow_details["attempts"].append(attempt_details) with final_action set
RecordAttempt(wd, ad, action) ==
    [wd EXCEPT !.attempts = Append(@, [ad EXCEPT !.final_action = action])]

\* Mutant: the run never stops early
ShouldReturn_Never(vr) == FALSE

\* Mutant: one kept song is not enough to stop
ShouldReturn_NeedsTwo(vr) == vr.kept_count > 1

\* STEP 6: the test that ends the run with the AI-approved result
ShouldReturn(vr) == vr.kept_count > 0

\* Mutant: the attempt cap is reported instead of the attempt reached
ApprovedResult_ReportsCap(a, vr) ==
    [success |-> TRUE, total_attempts |-> max_attempts, final_songs_count |-> vr.kept_count,
     good_songs |-> vr.kept_count, re_rolled_songs |-> vr.deleted_count]

\* The dict returned on success (lines 146-154)
ApprovedResult(a, vr) ==
    [success |-> TRUE, total_attempts |-> a, final_songs_count |-> vr.kept_count,
     good_songs |-> vr.kept_count, re_rolled_songs |-> vr.deleted_count]

\* Mutant: the fatal result is reported as a success
FatalResult_Succeeds(a) ==
    [success |-> TRUE, total_attempts |-> a, final_songs_count |-> 0, error |-> "exception"]

\* The dict returned when the last attempt raised (lines 171-178)
FatalResult(a) ==
    [success |-> FALSE, total_attempts |-> a, final_songs_count |-> 0, error |-> "exception"]

\* Mutant: the fail-safe songs are reported as AI-approved
FailsafeResult_Approved(moved, wd) ==
    [success |-> TRUE, total_attempts |-> max_attempts, final_songs_count |-> moved,
     good_songs |-> moved, re_rolled_songs |-> wd.songs_deleted]

\* Mutant: the fail-safe result does not report the songs it moved
FailsafeResult_NoCount(moved, wd) ==
    [success |-> TRUE, total_attempts |-> max_attempts, final_songs_count |-> 0,
     good_songs |-> 0, re_rolled_songs |-> wd.songs_deleted]

\* The dict returned when the fail-safe moved something (lines 193-201)
FailsafeResult(moved, wd) ==
    [success |-> TRUE, total_attempts |-> max_attempts, final_songs_count |-> moved,
     good_songs |-> 0, re_rolled_songs |-> wd.songs_deleted]

\* Mutant: the exhausted run without output is reported as a failure
NoOutputResult_Fails(wd) ==
    [success |-> FALSE, total_attempts |-> max_attempts, final_songs_count |-> 0,
     good_songs |-> 0, re_rolled_songs |-> wd.songs_deleted]

\* The dict returned otherwise (lines 203-211)
NoOutputResult(wd) ==
    [success |-> TRUE, total_attempts |-> max_attempts, final_songs_count |-> 0,
     good_songs |-> 0, re_rolled_songs |-> wd.songs_deleted]

\* os.makedirs(path, exist_ok=True): ok says whether a missing directory
\* could be created
makedirs(ds, path, ok) == IF path \in ds \/ ok THEN ds \cup {path} ELSE ds

\* Mutant: a directory that could not be created is ignored
Setup_SwallowsFailure ==
    /\ pc = "setup"
    /\ \E ok1, ok2 \in BOOLEAN :
        LET d1 == makedirs(dirs, temp_dir, ok1)
            d2 == makedirs(d1, final_dir, ok2)
        IN dirs' = d2 /\ pc' = "generate"
    /\ UNCHANGED <<attempt, fs, removed, workflow_details, attempt_details,
                   final_attempt_songs, downloaded_songs, review_results,
                   verdict_result, failsafe_result, result, log, hist, runs>>

\* Lines 52-58: resolve the two directories and create them; a failing
\* os.makedirs is outside every try and propagates to the caller.
Setup ==
    /\ pc = "setup"
    /\ \E ok1, ok2 \in BOOLEAN :
        LET d1 == makedirs(dirs, temp_dir, ok1)
            d2 == makedirs(d1, final_dir, ok2)
        IN IF temp_dir \notin d1
           THEN dirs' = d1 /\ pc' = "raised"
           ELSE IF final_dir \notin d2
                THEN dirs' = d2 /\ pc' = "raised"
                ELSE dirs' = d2 /\ pc' = "generate"
    /\ UNCHANGED <<attempt, fs, removed, workflow_details, attempt_details,
                   final_attempt_songs, downloaded_songs, review_results,
                   verdict_result, failsafe_result, result, log, hist, runs>>

\* STEP 1: generate_songs
Generate ==
    /\ pc = "generate"
    /\ log' = Append(log, LogEntry("generate", attempt, 0))
    /\ \E ok \in BOOLEAN :
        IF ~ok
        THEN /\ workflow_details' = RecordAttempt(workflow_details, attempt_details, "generation_failed")
             /\ NextIteration
        ELSE /\ attempt_details' = [attempt_details EXCEPT !.generation_success = TRUE]
             /\ workflow_details' = [workflow_details EXCEPT
                                       !.total_songs_generated = @ + SongsPerGeneration]
             /\ pc' = "wait"
             /\ attempt' = attempt
    /\ UNCHANGED <<dirs, fs, removed, final_attempt_songs, downloaded_songs, review_results,
                   verdict_result, failsafe_result, result, hist, runs>>

\* STEP 2: asyncio.sleep(3 * 60)
Wait ==
    /\ pc = "wait"
    /\ pc' = "fetch"
    /\ log' = Append(log, LogEntry("wait", attempt, 0))
    /\ UNCHANGED <<attempt, dirs, fs, removed, workflow_details, attempt_details,
                   final_attempt_songs, downloaded_songs, review_results,
                   verdict_result, failsafe_result, result, hist, runs>>

\* Mutant: every attempt's downloads are captured as fail-safe candidates
Fetch_CapturesAlways ==
    /\ pc = "fetch"
    /\ \E o1, o2 \in FetchOutcomes :
        LET dr == download_both_songs(attempt, o1, o2) IN
        /\ fs' = fs \cup download_staged(attempt, o1, o2)
        /\ log' = log \o <<LogEntry("fetch-1", attempt, IF o1 = "ok" THEN 1 ELSE 0)>>
                      \o (IF o1 # "raise"
                          THEN <<LogEntry("fetch-2", attempt, IF o2 = "ok" THEN 1 ELSE 0)>>
                          ELSE <<>>)
        /\ IF ~dr.success
           THEN /\ workflow_details' = RecordAttempt(workflow_details, attempt_details, "download_failed")
                /\ NextIteration
                /\ UNCHANGED <<downloaded_songs, final_attempt_songs>>
           ELSE /\ attempt_details' = [attempt_details EXCEPT !.downloads = dr.downloads]
                /\ downloaded_songs' = dr.downloads
                /\ final_attempt_songs' = dr.downloads
                /\ pc' = "review"
                /\ UNCHANGED <<attempt, workflow_details>>
    /\ UNCHANGED <<dirs, removed, review_results, verdict_result, failsafe_result, result, hist, runs>>

\* STEP 3: download_both_songs, and the capture of the fail-safe candidates
Fetch ==
    /\ pc = "fetch"
    /\ \E o1, o2 \in FetchOutcomes :
        LET dr == download_both_songs(attempt, o1, o2) IN
        /\ fs' = fs \cup download_staged(attempt, o1, o2)
        /\ log' = log \o <<LogEntry("fetch-1", attempt, IF o1 = "ok" THEN 1 ELSE 0)>>
                      \o (IF o1 # "raise"
                          THEN <<LogEntry("fetch-2", attempt, IF o2 = "ok" THEN 1 ELSE 0)>>
                          ELSE <<>>)
        /\ IF ~dr.success
           THEN /\ workflow_details' = RecordAttempt(workflow_details, attempt_details, "download_failed")
                /\ NextIteration
                /\ UNCHANGED <<downloaded_songs, final_attempt_songs>>
           ELSE /\ attempt_details' = [attempt_details EXCEPT !.downloads = dr.downloads]
                /\ downloaded_songs' = dr.downloads
                /\ final_attempt_songs' =
                       IF attempt = max_attempts THEN dr.downloads ELSE final_attempt_songs
                /\ pc' = "review"
                /\ UNCHANGED <<attempt, workflow_details>>
    /\ UNCHANGED <<dirs, removed, review_results, verdict_result, failsafe_result, result, hist, runs>>

\* STEP 4: review_all_songs
Review ==
    /\ pc = "review"
    /\ \E os \in [1..Len(downloaded_songs) -> ReviewOutcomes] :
        /\ review_results' = review_all_songs(downloaded_songs, os)
        /\ attempt_details' = [attempt_details EXCEPT
                                 !.reviews = review_all_songs(downloaded_songs, os)]
        /\ workflow_details' = [workflow_details EXCEPT
                                  !.total_songs_reviewed =
                                      @ + Len(review_all_songs(downloaded_songs, os))]
        /\ log' = log \o [i \in 1..Len(downloaded_songs) |->
                             LogEntry("review", attempt, IF os[i] = "raise" THEN 1 ELSE 0)]
    /\ pc' = "route"
    /\ UNCHANGED <<attempt, dirs, fs, removed, final_attempt_songs, downloaded_songs,
                   verdict_result, failsafe_result, result, hist, runs>>

\* STEP 5 and STEP 6: route the verdicts, then return or retry
Route ==
    /\ pc = "route"
    /\ LET vr == IF attempt = max_attempts
                 THEN process_song_verdicts_final_attempt(review_results, fs, removed)
                 ELSE process_song_verdicts(review_results, fs, removed)
           wd == [workflow_details EXCEPT !.songs_kept = @ + vr.kept_count,
                                          !.songs_deleted = @ + vr.deleted_count]
       IN
       /\ fs' = vr.fs
       /\ removed' = vr.removed
       /\ verdict_result' = vr
       /\ log' = Append(log, LogEntry(IF attempt = max_attempts THEN "route_final" ELSE "route",
                                      attempt, vr.kept_count))
       /\ IF ShouldReturn(vr)
          THEN /\ workflow_details' = RecordAttempt(wd, attempt_details, "success")
               /\ result' = ApprovedResult(attempt, vr)
               /\ pc' = "done"
               /\ UNCHANGED <<attempt, attempt_details>>
          ELSE /\ workflow_details' = RecordAttempt(wd, attempt_details, "all_songs_rejected")
               /\ NextIteration
               /\ UNCHANGED result
    /\ UNCHANGED <<dirs, final_attempt_songs, downloaded_songs, review_results, failsafe_result, hist, runs>>

\* Mutant: an exception on the second attempt already ends the run
AttemptException_FatalEarly ==
    /\ pc \in {"generate", "wait", "fetch", "review", "route"}
    /\ workflow_details' = RecordAttempt(workflow_details, attempt_details, "exception")
    /\ IF attempt >= max_attempts - 1
       THEN /\ result' = FatalResult(attempt)
            /\ pc' = "done"
            /\ UNCHANGED <<attempt, attempt_details>>
       ELSE /\ NextIteration
            /\ UNCHANGED result
    /\ UNCHANGED <<dirs, fs, removed, final_attempt_songs, downloaded_songs, review_results,
                   verdict_result, failsafe_result, log, hist, runs>>

\* except Exception: a statement of the try body raised
AttemptException ==
    /\ pc \in {"generate", "wait", "fetch", "review", "route"}
    /\ workflow_details' = RecordAttempt(workflow_details, attempt_details, "exception")
    /\ IF attempt = max_attempts
       THEN /\ result' = FatalResult(attempt)
            /\ pc' = "done"
            /\ UNCHANGED <<attempt, attempt_details>>
       ELSE /\ NextIteration
            /\ UNCHANGED result
    /\ UNCHANGED <<dirs, fs, removed, final_attempt_songs, downloaded_songs, review_results,
                   verdict_result, failsafe_result, log, hist, runs>>

\* The code after the loop: the fail-safe and the two exhausted results
Exhausted ==
    /\ pc = "failsafe"
    /\ IF final_attempt_songs # <<>>
       THEN LET fr == handle_failsafe_songs(final_attempt_songs, fs, removed) IN
            /\ fs' = fr.fs
            /\ removed' = fr.removed
            /\ failsafe_result' = fr
            /\ log' = Append(log, LogEntry("failsafe", attempt, fr.moved_count))
            /\ workflow_details' = [workflow_details EXCEPT !.songs_kept = @ + fr.moved_count]
            /\ result' = IF fr.moved_count > 0
                         THEN FailsafeResult(fr.moved_count, workflow_details)
                         ELSE NoOutputResult(workflow_details)
       ELSE /\ result' = NoOutputResult(workflow_details)
            /\ UNCHANGED <<fs, removed, failsafe_result, log, workflow_details>>
    /\ pc' = "done"
    /\ UNCHANGED <<attempt, dirs, attempt_details, final_attempt_songs, downloaded_songs,
                   review_results, verdict_result, hist, runs>>

Next ==
    \/ Setup
    \/ Generate
    \/ Wait
    \/ Fetch
    \/ Review
    \/ Route
    \/ AttemptException
    \/ Exhausted

Spec == Init /\ [][Next]_vars

\* The coroutine is driven to completion by the event loop.
LiveSpec == Init /\ [][Next]_vars /\ WF_vars(Next)

-----------------------------------------------------------------------------
(* Component harness: the two routers and the fail-safe handler applied to *)
(* an arbitrary batch over an arbitrary staging directory, each up to      *)
(* MaxCalls times in any order.                                            *)

MaxPath == 3

MaxBatch == 2

MaxCalls == 2

UnitPath(n) == [dir |-> temp_dir, stem |-> <<"unit", ToString(n)>>, ext |-> ".mp3"]

UnitPaths == {UnitPath(n) : n \in 1..MaxPath}

UnitInit ==
    /\ pc = "unit"
    /\ attempt = max_attempts
    /\ dirs = {temp_dir, final_dir}
    /\ fs \in SUBSET UnitPaths
    /\ removed = {}
    /\ workflow_details = [attempts |-> <<>>, total_songs_generated |-> 0,
                           total_songs_reviewed |-> 0, songs_kept |-> 0, songs_deleted |-> 0]
    /\ attempt_details = NewAttemptDetails(max_attempts)
    /\ \E n \in 0..MaxBatch :
         \E ps \in [1..n -> UnitPaths], vs \in [1..n -> Verdicts] :
            /\ \A i, j \in 1..n : ps[i] = ps[j] => i = j
            /\ downloaded_songs = [i \in 1..n |-> [file_path |-> ps[i], index |-> -i]]
            /\ final_attempt_songs = [i \in 1..n |-> [file_path |-> ps[i], index |-> -i]]
            /\ review_results = [i \in 1..n |->
                                   [file_path |-> ps[i], index |-> -i, verdict |-> vs[i]]]
    /\ verdict_result = NoVerdict
    /\ failsafe_result = NoFailsafe
    /\ result = NoResult
    /\ log = <<>>
    /\ hist = <<>>
    /\ runs = <<>>

\* One call of the harness: what was called, the filesystem before it, and
\* what the call returned (with the filesystem after it).
HistEntry(op, files, rem, res) == [op |-> op, before |-> files, removed_before |-> rem, res |-> res]

UnitRoute ==
    /\ pc = "unit"
    /\ Len(hist) < MaxCalls
    /\ LET res == process_song_verdicts(review_results, fs, removed) IN
        /\ fs' = res.fs
        /\ removed' = res.removed
        /\ verdict_result' = res
        /\ hist' = Append(hist, HistEntry("route", fs, removed, res))
    /\ UNCHANGED <<pc, attempt, dirs, workflow_details, attempt_details, final_attempt_songs,
                   downloaded_songs, review_results, failsafe_result, result, log, runs>>

UnitRouteFinal ==
    /\ pc = "unit"
    /\ Len(hist) < MaxCalls
    /\ LET res == process_song_verdicts_final_attempt(review_results, fs, removed) IN
        /\ fs' = res.fs
        /\ removed' = res.removed
        /\ verdict_result' = res
        /\ hist' = Append(hist, HistEntry("route_final", fs, removed, res))
    /\ UNCHANGED <<pc, attempt, dirs, workflow_details, attempt_details, final_attempt_songs,
                   downloaded_songs, review_results, failsafe_result, result, log, runs>>

UnitFailsafe ==
    /\ pc = "unit"
    /\ Len(hist) < MaxCalls
    /\ LET res == handle_failsafe_songs(final_attempt_songs, fs, removed) IN
        /\ fs' = res.fs
        /\ removed' = res.removed
        /\ failsafe_result' = res
        /\ hist' = Append(hist, HistEntry("failsafe", fs, removed, res))
    /\ UNCHANGED <<pc, attempt, dirs, workflow_details, attempt_details, final_attempt_songs,
                   downloaded_songs, review_results, verdict_result, result, log, runs>>

UnitNext ==
    \/ UnitRoute
    \/ UnitRouteFinal
    \/ UnitFailsafe

UnitSpec == UnitInit /\ [][UnitNext]_vars

-----------------------------------------------------------------------------
(* Two runs of the workflow on the same staging and final-storage          *)
(* directories. Each run has reviewed the downloads of its current attempt *)
(* and is about to route them; runs for the same title hold the same       *)
(* paths. A run is suspended only at an await, so the calls of             *)
(* process_song_verdicts, process_song_verdicts_final_attempt and          *)
(* handle_failsafe_songs of the two runs interleave as whole calls.        *)

PairPath == 2

PairBatch == 2

PairPaths == {UnitPath(n) : n \in 1..PairPath}

RunIds == {1, 2}

\* The review results a run can hold: distinct paths, any known verdict
PairBatches ==
    UNION {{[i \in 1..n |-> [file_path |-> ps[i], index |-> -i, verdict |-> vs[i]]] :
               ps \in {f \in [1..n -> PairPaths] : \A i, j \in 1..n : f[i] = f[j] => i = j},
               vs \in [1..n -> Verdicts \ {"unknown"}]} :
           n \in 0..PairBatch}

\* A run at STEP 5 of an attempt: last says whether it is attempt 3
NewRun(last, rs) == [last |-> last, reviews |-> rs, pc |-> "route", calls |-> <<>>]

PairInit ==
    /\ pc = "pair"
    /\ attempt = 1
    /\ dirs = {temp_dir, final_dir}
    /\ removed = {}
    /\ workflow_details = [attempts |-> <<>>, total_songs_generated |-> 0,
                           total_songs_reviewed |-> 0, songs_kept |-> 0, songs_deleted |-> 0]
    /\ attempt_details = NewAttemptDetails(1)
    /\ final_attempt_songs = <<>>
    /\ downloaded_songs = <<>>
    /\ review_results = <<>>
    /\ verdict_result = NoVerdict
    /\ failsafe_result = NoFailsafe
    /\ result = NoResult
    /\ log = <<>>
    /\ hist = <<>>
    /\ \E b1, b2 \in PairBatches, l1, l2 \in BOOLEAN :
          /\ runs = <<NewRun(l1, b1), NewRun(l2, b2)>>
          /\ fs = {b1[i].file_path : i \in 1..Len(b1)} \cup {b2[i].file_path : i \in 1..Len(b2)}

\* STEP 5 and STEP 6 of run r; on attempt 3 without a kept song the loop
\* ends and the fail-safe block is next (lines 132-138, 141, 181)
PairRoute(r) ==
    /\ pc = "pair"
    /\ runs[r].pc = "route"
    /\ LET res == IF runs[r].last
                  THEN process_song_verdicts_final_attempt(runs[r].reviews, fs, removed)
                  ELSE process_song_verdicts(runs[r].reviews, fs, removed)
       IN
       /\ fs' = res.fs
       /\ removed' = res.removed
       /\ runs' = [runs EXCEPT
                     ![r].calls = Append(@, HistEntry(IF runs[r].last THEN "route_final" ELSE "route",
                                                      fs, removed, res)),
                     ![r].pc = IF runs[r].last /\ ~ShouldReturn(res) /\ runs[r].reviews # <<>>
                               THEN "failsafe" ELSE "done"]
    /\ UNCHANGED <<pc, attempt, dirs, workflow_details, attempt_details, final_attempt_songs,
                   downloaded_songs, review_results, verdict_result, failsafe_result,
                   result, log, hist>>

\* The fail-safe block of run r on the downloads of its attempt 3 (lines 181-185)
PairFailsafe(r) ==
    /\ pc = "pair"
    /\ runs[r].pc = "failsafe"
    /\ LET res == handle_failsafe_songs(runs[r].reviews, fs, removed) IN
       /\ fs' = res.fs
       /\ removed' = res.removed
       /\ runs' = [runs EXCEPT
                     ![r].calls = Append(@, HistEntry("failsafe", fs, removed, res)),
                     ![r].pc = "done"]
    /\ UNCHANGED <<pc, attempt, dirs, workflow_details, attempt_details, final_attempt_songs,
                   downloaded_songs, review_results, verdict_result, failsafe_result,
                   result, log, hist>>

PairNext ==
    \/ \E r \in RunIds : PairRoute(r)
    \/ \E r \in RunIds : PairFailsafe(r)

PairSpec == PairInit /\ [][PairNext]_vars

-----------------------------------------------------------------------------
(* Properties of execute_song_workflow *)

LogIndex == 1..Len(log)

IsRouting(e) == e.op \in {"route", "route_final"}

GenerateCalls == {i \in LogIndex : log[i].op = "generate"}

Returned == result # NoResult

LastRecord == workflow_details.attempts[Len(workflow_details.attempts)]

\* C1: a routing that keeps at least one song is the last step of the run:
\* the workflow has returned success at that attempt, and no generation,
\* wait, fetch, review, routing or fail-safe step was made after it.
C1_EarlyStop ==
    \A i \in LogIndex :
        (IsRouting(log[i]) /\ log[i].n > 0) =>
            /\ i = Len(log)
            /\ pc = "done"
            /\ result.success = TRUE
            /\ result.total_attempts = log[i].attempt

C1_Witness ==
    /\ pc = "done"
    /\ Len(log) > 0
    /\ log[Len(log)].op = "route"
    /\ log[Len(log)].n > 0
    /\ log[Len(log)].attempt = 1

Succeeded == pc = "done" /\ result.success /\ LastRecord.final_action = "success"

FailedFatal == pc = "done" /\ ~result.success

FailedExhausted ==
    /\ pc = "done"
    /\ Len(workflow_details.attempts) = 3
    /\ LastRecord.final_action \in {"generation_failed", "download_failed", "all_songs_rejected"}
    /\ result.success

C2_Safety ==
    /\ attempt \in 1..3
    /\ Cardinality(GenerateCalls) <= 3
    /\ \A i, j \in GenerateCalls : i < j => log[i].attempt < log[j].attempt
    /\ \A i \in 1..Len(workflow_details.attempts) :
           workflow_details.attempts[i].attempt_number = i
    /\ Len(workflow_details.attempts) <= 3
    /\ Returned <=> pc = "done"
    /\ pc = "done" =>
           Cardinality({t \in {"Succeeded", "FailedExhausted", "FailedFatal"} :
                          \/ t = "Succeeded" /\ Succeeded
                          \/ t = "FailedExhausted" /\ FailedExhausted
                          \/ t = "FailedFatal" /\ FailedFatal}) = 1

\* C2 as stated: every run reaches a terminal state and returns, once (so
\* no run ends by raising to its caller); the attempts are numbered 1, 2, 3
\* in increasing order, there is never a fourth, and generation is invoked
\* at most 3 times.
C2_AsStated ==
    /\ <>(pc = "done")
    /\ [](pc # "raised")
    /\ []C2_Safety
    /\ [][Returned => result' = result /\ pc' = "done"]_vars

\* A run that raised did so in the storage set-up: no attempt was started
\* and nothing was returned.
RaisedOnlyInSetup ==
    pc = "raised" =>
        /\ log = <<>>
        /\ workflow_details.attempts = <<>>
        /\ ~Returned
        /\ {temp_dir, final_dir} \ dirs # {}

\* C2 (amended): every run whose storage set-up succeeded reaches a terminal
\* state and returns, once, with the attempts numbered 1, 2, 3 in increasing
\* order, never a fourth, and generation invoked at most 3 times; a run
\* whose set-up failed raised before attempt 1 and returned nothing.
C2_BoundedTermination ==
    /\ (pc = "generate") ~> (pc = "done")
    /\ []C2_Safety
    /\ []RaisedOnlyInSetup
    /\ [][Returned => result' = result /\ pc' = "done"]_vars

C2_Witness == pc = "done" /\ Cardinality(GenerateCalls) = 3

-----------------------------------------------------------------------------
(* Where an artifact can be *)

FetchOp(k) == IF k = 1 THEN "fetch-1" ELSE "fetch-2"

\* The paths that the fetches of attempt a staged
StagedIn(a) ==
    {StagedPath(a, k) : k \in {j \in 1..2 :
        \E i \in LogIndex : log[i] = [op |-> FetchOp(j), attempt |-> a, n |-> 1]}}

\* The place of an approved artifact in final storage
OwnName(p) == [dir |-> "backend/songs/final_review", stem |-> p.stem, ext |-> p.ext]

\* The place of a fail-safe artifact in final storage
MarkedName(p) ==
    [dir |-> "backend/songs/final_review", stem |-> p.stem \o <<"_FAILSAFE">>, ext |-> p.ext]

Approved(p) ==
    \E i \in 1..Len(review_results) :
        review_results[i].file_path = p /\ review_results[i].verdict = "continue"

FailsafeRan == \E i \in LogIndex : log[i].op = "failsafe"

RoutedFinal == \E i \in LogIndex : log[i].op = "route_final"

PresentIn(files, songs) == {i \in 1..Len(songs) : songs[i].file_path \in files}

WithVerdict(rs, files, v) == {i \in PresentIn(files, rs) : rs[i].verdict = v}

PlacesOf(p) == {x \in {p, OwnName(p), MarkedName(p)} : x \in fs}

\* C3 as stated: when the workflow returns, every artifact staged in
\* attempt 3 is in final storage (own name if approved, marked name
\* otherwise), not deleted and not in staging.
C3_AsStated ==
    pc = "done" =>
        \A p \in StagedIn(3) :
            /\ p \notin fs
            /\ p \notin removed
            /\ IF Approved(p) THEN OwnName(p) \in fs ELSE MarkedName(p) \in fs

\* C3 (amended): no artifact staged in attempt 3 is ever deleted, and when
\* the workflow returns each is in exactly one place: final storage under
\* its own name iff the final-attempt router routed it with verdict
\* continue, final storage under the marked name iff the fail-safe handler
\* ran, and otherwise still in staging.
C3_LastAttemptKept ==
    /\ StagedIn(3) \cap removed = {}
    /\ pc = "done" =>
        \A p \in StagedIn(3) :
            /\ Cardinality(PlacesOf(p)) = 1
            /\ OwnName(p) \in fs <=> (Approved(p) /\ RoutedFinal)
            /\ MarkedName(p) \in fs <=> FailsafeRan

C3_Witness ==
    /\ pc = "done"
    /\ \E p \in StagedIn(3) : MarkedName(p) \in fs
    /\ \E i \in 1..Len(review_results) : review_results[i].verdict = "re-roll"

\* The final-attempt routing step of the workflow
FinalRoutingStep == pc = "route" /\ attempt = 3 /\ log' # log

\* C6: routing on attempt 3 removes nothing: every artifact with verdict
\* re-roll or error that was in staging is still there right after routing,
\* deleted_count is 0, and continue moves the artifact to final storage and
\* counts it as kept.
C6_FinalPreservation ==
    [][FinalRoutingStep =>
        /\ removed' = removed
        /\ verdict_result'.deleted_count = 0
        /\ \A i \in 1..Len(review_results) :
              (review_results[i].verdict \in {"re-roll", "error"}
                  /\ review_results[i].file_path \in fs)
              => review_results[i].file_path \in fs'
        /\ \A i \in WithVerdict(review_results, fs, "continue") :
              /\ review_results[i].file_path \notin fs'
              /\ OwnName(review_results[i].file_path) \in fs'
        /\ verdict_result'.kept_count = Cardinality(WithVerdict(review_results, fs, "continue"))
      ]_vars

C6_Witness ==
    /\ Len(log) > 0
    /\ log[Len(log)].op = "route_final"
    /\ \E i \in 1..Len(review_results) :
          review_results[i].verdict = "re-roll" /\ review_results[i].file_path \in fs
    /\ \E i \in 1..Len(review_results) :
          review_results[i].verdict = "continue" /\ OwnName(review_results[i].file_path) \in fs

\* C7: the fail-safe handler is invoked only as the last step of a run in
\* which all 3 attempts are recorded and no routing kept anything; a run
\* that ended on an approved song never invoked it.
C7_FailsafeGuard ==
    \A i \in LogIndex :
        log[i].op = "failsafe" =>
            /\ i = Len(log)
            /\ Len(workflow_details.attempts) = 3
            /\ \A j \in LogIndex : IsRouting(log[j]) => log[j].n = 0
            /\ \A j \in 1..3 : workflow_details.attempts[j].final_action # "success"
            /\ workflow_details.songs_kept = log[i].n
            /\ \A p \in final_storage(fs) : \E q \in StagedIn(3) : p = MarkedName(q)

C7_Witness ==
    /\ FailsafeRan
    /\ log[Len(log)].n >= 1
    /\ \E j \in LogIndex : log[j].op = "route"

\* The kept songs of attempt a, counted in final storage
KeptIn(a) == {p \in StagedIn(a) : OwnName(p) \in fs}

\* Attempt 1 generated, retrieved 2 songs, got continue for both and routed them
C9_Scenario ==
    /\ Len(workflow_details.attempts) >= 1
    /\ workflow_details.attempts[1].final_action # "exception"
    /\ workflow_details.attempts[1].generation_success
    /\ Len(workflow_details.attempts[1].downloads) = 2
    /\ Len(workflow_details.attempts[1].reviews) = 2
    /\ \A i \in 1..2 : workflow_details.attempts[1].reviews[i].verdict = "continue"

\* C9: when the routing of attempt n keeps k > 0 songs, the result is
\* success with total_attempts = n, final_songs_count = good_songs = k, and
\* n attempts are recorded; two songs approved on attempt 1 give a count of
\* 2 and one record.
C9_ApprovedResult ==
    /\ \A i \in LogIndex :
          (IsRouting(log[i]) /\ log[i].n > 0) =>
              /\ pc = "done"
              /\ result.success = TRUE
              /\ result.total_attempts = log[i].attempt
              /\ Cardinality(KeptIn(log[i].attempt)) = log[i].n
              /\ result.final_songs_count = Cardinality(KeptIn(log[i].attempt))
              /\ result.good_songs = Cardinality(KeptIn(log[i].attempt))
              /\ Len(workflow_details.attempts) = log[i].attempt
    /\ C9_Scenario =>
          /\ pc = "done"
          /\ result.success = TRUE
          /\ result.final_songs_count = 2
          /\ result.good_songs = 2
          /\ result.total_attempts = 1
          /\ Len(workflow_details.attempts) = 1

C9_Witness == C9_Scenario /\ pc = "done"

\* The fail-safe step of a run whose attempt 3 was routed
FailsafeStep == pc = "failsafe" /\ pc' = "done" /\ RoutedFinal

\* C10: when the loop is exhausted and m >= 1 songs of attempt 3 are in
\* staging after its routing, the fail-safe moves all m under marked names
\* and the result is success with good_songs = 0, final_songs_count = m and
\* total_attempts = 3.
C10_FailsafeResult ==
    [][(FailsafeStep /\ Cardinality(StagedIn(3) \cap fs) >= 1) =>
        /\ workflow_details.songs_kept = 0
        /\ \A p \in StagedIn(3) \cap fs :
              MarkedName(p) \in fs' /\ p \notin fs' /\ OwnName(p) \notin fs'
        /\ result'.success = TRUE
        /\ result'.good_songs = 0
        /\ result'.final_songs_count = Cardinality(StagedIn(3) \cap fs)
        /\ result'.total_attempts = 3
      ]_vars

C10_Witness ==
    /\ pc = "done"
    /\ FailsafeRan
    /\ Len(workflow_details.attempts) = 3
    /\ \A j \in 1..3 :
          /\ Len(workflow_details.attempts[j].reviews) >= 1
          /\ \A i \in 1..Len(workflow_details.attempts[j].reviews) :
                workflow_details.attempts[j].reviews[i].verdict = "re-roll"
    /\ Cardinality(StagedIn(3)) = 2
    /\ result.final_songs_count = 2
    /\ result.good_songs = 0

Records == workflow_details.attempts

\* All three attempts ended with a reported generation failure
C11_Scenario ==
    /\ pc = "done"
    /\ Len(Records) = 3
    /\ \A j \in 1..3 : Records[j].final_action = "generation_failed"

\* C11: when generation reports failure on attempts 1, 2 and 3 the run made
\* only the three generation calls, touched no file, recorded three attempts
\* with generation_success = false and returned success with all counts 0
\* and total_attempts = 3.
C11_GenerationFailures ==
    C11_Scenario =>
        /\ Len(log) = 3
        /\ \A i \in LogIndex : log[i] = [op |-> "generate", attempt |-> i, n |-> 0]
        /\ fs = {}
        /\ removed = {}
        /\ \A j \in 1..3 : Records[j].generation_success = FALSE /\ Records[j].attempt_number = j
        /\ result.success = TRUE
        /\ result.final_songs_count = 0
        /\ result.good_songs = 0
        /\ result.total_attempts = 3
        /\ workflow_details.total_songs_generated = 0

C11_Witness == C11_Scenario /\ result.success = TRUE

\* C12: the returned result has success = false exactly when the record of
\* attempt 3 is an exception (then final_songs_count = 0, total_attempts =
\* 3); a generation or download failure on attempt 3 went through the code
\* after the loop and gave success = true.
C12_FatalOnlyFromException ==
    pc = "done" =>
        /\ result.success = FALSE <=>
              (Len(Records) = 3 /\ Records[3].final_action = "exception")
        /\ result.success = FALSE =>
              result.final_songs_count = 0 /\ result.total_attempts = 3
        /\ (Len(Records) = 3
              /\ Records[3].final_action \in {"generation_failed", "download_failed"}) =>
              /\ result.success = TRUE
              /\ result.good_songs = 0
              /\ result.total_attempts = 3
              /\ result.final_songs_count = Cardinality({p \in StagedIn(3) : MarkedName(p) \in fs})

C12_Witness ==
    /\ pc = "done"
    /\ result.success = FALSE
    /\ Records[3].final_action = "exception"
    /\ Records[3].generation_success

\* A step that concludes attempt 1 or 2 without an approved song
FailedEarlyStep ==
    /\ attempt \in {1, 2}
    /\ pc \in {"generate", "wait", "fetch", "review", "route"}
    /\ Len(workflow_details'.attempts) = Len(Records) + 1
    /\ ~(pc = "route" /\ log' # log /\ verdict_result'.kept_count > 0)

\* The outcome the step stands for, from where the coroutine was
OutcomeOfStep ==
    IF log' = log THEN "exception"
    ELSE IF pc = "generate" THEN "generation_failed"
    ELSE IF pc = "fetch" THEN "download_failed"
    ELSE "all_songs_rejected"

\* C13: a failure that concludes attempt 1 or 2 (generation failure,
\* download failure, all songs rejected, exception) is recorded as that
\* attempt's final_action and the workflow goes on with the next attempt;
\* the run ends before attempt 3 only on an approved song.
C13_AttemptLocalRecovery ==
    /\ [][FailedEarlyStep =>
            /\ workflow_details'.attempts[Len(Records) + 1].attempt_number = attempt
            /\ workflow_details'.attempts[Len(Records) + 1].final_action = OutcomeOfStep
            /\ attempt' = attempt + 1
            /\ pc' = "generate"
            /\ result' = NoResult
         ]_vars
    /\ []((pc = "done" /\ Len(Records) < 3) => LastRecord.final_action = "success")
    /\ [](pc = "raised" => Records = <<>>)

C13_Witness ==
    /\ Len(Records) >= 2
    /\ Records[1].final_action = "exception"
    /\ Records[2].final_action = "all_songs_rejected"
    /\ attempt = 3
    /\ pc = "generate"

\* The retrieval step of an attempt
FetchStep == pc = "fetch" /\ log' # log

\* The artifacts of the current attempt among S, position -1 before -2
StagedSeq(S) ==
    (IF StagedPath(attempt, 1) \in S THEN <<StagedPath(attempt, 1)>> ELSE <<>>)
        \o (IF StagedPath(attempt, 2) \in S THEN <<StagedPath(attempt, 2)>> ELSE <<>>)

\* C14: the retrieval step always attempts the fetch for position -1 and
\* then the fetch for position -2, the list it returns is exactly the
\* artifacts it staged, in that order, and it reports success (the attempt
\* goes on to review) exactly when it staged at least one artifact.
C14_AsStated ==
    [][FetchStep =>
          /\ Len(log') = Len(log) + 2
          /\ log'[Len(log) + 1].op = "fetch-1"
          /\ log'[Len(log) + 2].op = "fetch-2"
          /\ (pc' = "review") <=> (fs' \ fs # {})
          /\ pc' = "review" =>
                [i \in 1..Len(downloaded_songs') |-> downloaded_songs'[i].file_path]
                    = StagedSeq(fs' \ fs)
      ]_vars

\* The review log entries of the batch that is about to be routed
ReviewEntries == SubSeq(log, Len(log) - Len(review_results) + 1, Len(log))

\* C15: the review step returns one record per staged artifact, in retrieval
\* order, each with a verdict among continue, re-roll and error; an artifact
\* whose reviewer call raised gets verdict error and the workflow goes on to
\* routing.
C15_ReviewTotal ==
    pc = "route" =>
        /\ Len(review_results) = Len(downloaded_songs)
        /\ Len(log) >= Len(review_results)
        /\ \A i \in 1..Len(review_results) :
              /\ review_results[i].file_path = downloaded_songs[i].file_path
              /\ review_results[i].index = downloaded_songs[i].index
              /\ review_results[i].verdict \in {"continue", "re-roll", "error"}
              /\ ReviewEntries[i].op = "review"
              /\ ReviewEntries[i].n = 1 => review_results[i].verdict = "error"

C15_Witness ==
    /\ pc = "route"
    /\ Len(review_results) = 2
    /\ ReviewEntries[1].n = 1
    /\ review_results[1].verdict = "error"
    /\ review_results[2].verdict = "continue"

\* Every path a fetch of the run staged
AllStaged == UNION {StagedIn(a) : a \in 1..3}

\* The staged artifacts now in final storage under their own name
KeptByVerdict == {p \in AllStaged : OwnName(p) \in fs}

\* The staged artifacts now in final storage under the marked name
Promoted == {p \in AllStaged : MarkedName(p) \in fs}

\* The sum of the counts n logged by the steps whose op is in ops
RECURSIVE LoggedCount(_, _)
LoggedCount(ops, i) ==
    IF i = 0 THEN 0
    ELSE LoggedCount(ops, i - 1) + (IF log[i].op \in ops THEN log[i].n ELSE 0)

\* C16: when the run returns, the files in final storage are the artifacts
\* kept by a continue verdict plus the fail-safe promotions, their number is
\* the sum of the routers' kept counts and the fail-safe's moved count, and
\* it is the value of songs_kept.
C16_KeptCounter ==
    pc = "done" =>
        /\ {f \in fs : f.dir = "backend/songs/final_review"}
              = {OwnName(p) : p \in KeptByVerdict} \cup {MarkedName(p) : p \in Promoted}
        /\ Cardinality({f \in fs : f.dir = "backend/songs/final_review"})
              = Cardinality(KeptByVerdict) + Cardinality(Promoted)
        /\ Cardinality(KeptByVerdict) = LoggedCount({"route", "route_final"}, Len(log))
        /\ Cardinality(Promoted) = LoggedCount({"failsafe"}, Len(log))
        /\ workflow_details.songs_kept = Cardinality(KeptByVerdict) + Cardinality(Promoted)

C16_Witness ==
    /\ pc = "done"
    /\ Cardinality(Promoted) = 1
    /\ workflow_details.songs_kept = 1
    /\ workflow_details.songs_deleted > 0

\* Every path a fetch of a run can stage
AllPaths == {StagedPath(a, k) : a \in 1..3, k \in 1..2}

\* C18: an artifact is in at most one place (staging, final storage under its
\* own name, final storage under the marked name); an artifact that was
\* deleted is in none; a step that puts an artifact into final storage takes
\* it out of staging, and a file in final storage is never moved again.
C18_SingleOwnership ==
    /\ [](\A p \in AllPaths :
            /\ Cardinality(PlacesOf(p)) <= 1
            /\ p \in removed => PlacesOf(p) = {})
    /\ [][\A p \in AllPaths :
            /\ \A q \in {OwnName(p), MarkedName(p)} :
                  /\ (q \in fs' /\ q \notin fs) => (p \in fs /\ p \notin fs')
                  /\ q \in fs => q \in fs'
            /\ (p \in removed' /\ p \notin removed) => (p \in fs /\ p \notin fs')
         ]_vars

C18_Witness ==
    /\ pc = "done"
    /\ removed # {}
    /\ \E p, q \in StagedIn(3) : p # q /\ MarkedName(p) \in fs /\ MarkedName(q) \in fs

\* The position of a step within its attempt
StepRank(op) ==
    CASE op = "generate" -> 1
      [] op = "wait" -> 2
      [] op = "fetch-1" -> 3
      [] op = "fetch-2" -> 4
      [] op = "review" -> 5
      [] op \in {"route", "route_final"} -> 6
      [] OTHER -> 7

\* The steps of attempt a with one of the given ops
StepsOf(a, ops) == {i \in LogIndex : log[i].attempt = a /\ log[i].op \in ops}

\* The attempts that have ended, other than by an exception
Concluded == {a \in 1..Len(Records) : Records[a].final_action # "exception"}

\* C19 as stated: the steps of an attempt run in the order generate, wait,
\* fetch, review, route, one at a time; wait and fetch are made only after a
\* successful generation; an attempt that ended without an exception made
\* one review per staged artifact, all before its routing, and was routed
\* exactly when its retrieval staged at least one artifact.
C19_AsStated ==
    /\ \A i, j \in LogIndex :
          i < j =>
             /\ log[i].attempt <= log[j].attempt
             /\ log[i].attempt = log[j].attempt =>
                   /\ StepRank(log[i].op) <= StepRank(log[j].op)
                   /\ StepRank(log[i].op) = StepRank(log[j].op) => log[i].op = "review"
    /\ \A a \in 1..Len(Records) :
          StepsOf(a, {"wait", "fetch-1", "fetch-2"}) # {} => Records[a].generation_success
    /\ \A a \in Concluded :
          /\ Cardinality(StepsOf(a, {"review"})) = Cardinality(StagedIn(a))
          /\ Cardinality(StepsOf(a, {"route", "route_final"}))
                = IF StagedIn(a) # {} THEN 1 ELSE 0

\* The paths of the fail-safe candidates, in order
CandidatePaths == [i \in 1..Len(final_attempt_songs) |-> final_attempt_songs[i].file_path]

\* The artifacts the fetches of attempt 3 staged, position -1 before -2
StagedInFinal ==
    (IF StagedPath(3, 1) \in StagedIn(3) THEN <<StagedPath(3, 1)>> ELSE <<>>)
        \o (IF StagedPath(3, 2) \in StagedIn(3) THEN <<StagedPath(3, 2)>> ELSE <<>>)

\* C21: the fail-safe candidate list is empty until the retrieval of
\* attempt 3 has succeeded; from then on, and before any review or routing
\* of attempt 3, it is the list of artifacts retrieved in attempt 3; it
\* never holds an artifact of attempt 1 or 2, and no artifact staged by
\* attempt 1 or 2 is ever in final storage under the fail-safe name.
C21_CandidateSet ==
    /\ final_attempt_songs # <<>> =>
          /\ attempt = 3
          /\ StagedIn(3) # {}
          /\ CandidatePaths = StagedInFinal
          /\ final_attempt_songs = downloaded_songs
    /\ (attempt = 3 /\ pc \in {"review", "route"}) => final_attempt_songs # <<>>
    /\ StepsOf(3, {"review", "route_final", "failsafe"}) # {} => final_attempt_songs # <<>>
    /\ \A a \in {1, 2} : \A k \in 1..2 :
          /\ \A i \in 1..Len(final_attempt_songs) : CandidatePaths[i] # StagedPath(a, k)
          /\ MarkedName(StagedPath(a, k)) \notin fs

C21_Witness ==
    /\ pc = "done"
    /\ Len(final_attempt_songs) = 2
    /\ \A i \in 1..2 : MarkedName(CandidatePaths[i]) \in fs
    /\ StagedIn(1) \cap fs # {}
    /\ StagedIn(2) \cap fs # {}

\* The attempts before the last whose routing has run
RoutedEarly == {a \in {1, 2} : a <= Len(Records)
                   /\ Records[a].final_action \in {"success", "all_songs_rejected"}}

\* The artifacts routed in attempt 1 or 2 with a verdict that is neither
\* continue nor re-roll
ErroredEarly ==
    {p \in AllPaths : \E a \in RoutedEarly : \E i \in 1..Len(Records[a].reviews) :
        /\ Records[a].reviews[i].file_path = p
        /\ Records[a].reviews[i].verdict \notin {"continue", "re-roll"}}

\* The records under routing whose verdict is v
UnderRouting(v) == {i \in 1..Len(review_results) : review_results[i].verdict = v}

\* C22: the routing of attempt 1 or 2 leaves an artifact with verdict error
\* in staging and counts only the continue and re-roll artifacts; from then
\* on, up to and including the return of the workflow, that artifact is in
\* staging, not deleted, and not in final storage under any name.
C22_ErrorLeftInStaging ==
    /\ [](\A p \in ErroredEarly :
             /\ p \in fs
             /\ p \notin removed
             /\ OwnName(p) \notin fs
             /\ MarkedName(p) \notin fs)
    /\ [][(pc = "route" /\ attempt \in {1, 2} /\ log' # log) =>
             /\ verdict_result'.kept_count = Cardinality(UnderRouting("continue"))
             /\ verdict_result'.deleted_count = Cardinality(UnderRouting("re-roll"))
             /\ workflow_details'.songs_kept
                   = workflow_details.songs_kept + Cardinality(UnderRouting("continue"))
             /\ workflow_details'.songs_deleted
                   = workflow_details.songs_deleted + Cardinality(UnderRouting("re-roll"))
             /\ \A i \in UnderRouting("error") :
                   /\ review_results[i].file_path \in fs
                   /\ review_results[i].file_path \in fs'
                   /\ review_results[i].file_path \notin removed'
         ]_vars

C22_Witness ==
    /\ pc = "done"
    /\ ErroredEarly \cap StagedIn(1) # {}
    /\ ErroredEarly \cap StagedIn(2) # {}
    /\ Promoted # {}
    /\ removed # {}

\* C24 as stated: every returned result with success = true reports in
\* re_rolled_songs the cumulative deleted counter of the run.
C24_AsStated ==
    (pc = "done" /\ result.success) =>
        result.re_rolled_songs = workflow_details.songs_deleted

\* C25: no step of an attempt is made before both directories exist; when
\* a directory cannot be created the run raises to the caller with no
\* attempt started: nothing was called, no attempt is recorded, no counter
\* has moved and no result is returned.
C25_SetupFirst ==
    /\ pc = "setup" => log = <<>> /\ Records = <<>>
    /\ (log # <<>> \/ Records # <<>> \/ pc \notin {"setup", "raised"}) =>
          (temp_dir \in dirs /\ final_dir \in dirs)
    /\ pc = "raised" =>
          /\ temp_dir \notin dirs \/ final_dir \notin dirs
          /\ log = <<>>
          /\ Records = <<>>
          /\ attempt = 1
          /\ fs = {}
          /\ workflow_details.total_songs_generated = 0
          /\ workflow_details.total_songs_reviewed = 0
          /\ result = NoResult

C25_Witness ==
    /\ pc = "raised"
    /\ temp_dir \in dirs
    /\ final_dir \notin dirs

\* C26: the attempt history has one record per concluded attempt, numbered
\* 1, 2, ... in order; a step appends at most one record and changes none
\* of those already there; a returned result reports the length of the
\* history as total_attempts.
C26_History ==
    /\ [](/\ \A i \in 1..Len(Records) :
                Records[i].attempt_number = i /\ Records[i].final_action # "None"
          /\ pc \in {"generate", "wait", "fetch", "review", "route"} =>
                Len(Records) = attempt - 1
          /\ pc = "failsafe" => Len(Records) = 3
          /\ pc = "done" => Len(Records) = result.total_attempts)
    /\ [][/\ Len(workflow_details'.attempts) \in {Len(Records), Len(Records) + 1}
          /\ SubSeq(workflow_details'.attempts, 1, Len(Records)) = Records
          /\ attempt' # attempt => Len(workflow_details'.attempts) = Len(Records) + 1
         ]_vars

C26_Witness ==
    /\ pc = "done"
    /\ Len(Records) = 3
    /\ Records[1].final_action = "exception"
    /\ Records[2].final_action = "download_failed"
    /\ Records[3].final_action = "success"
    /\ result.total_attempts = 3

\* The attempts whose generation has succeeded so far
GenerationSucceeded ==
    {a \in 1..Len(Records) : Records[a].generation_success}
        \cup (IF pc \in {"wait", "fetch", "review", "route"} THEN {attempt} ELSE {})

\* The downloads download_both_songs returned in attempt a
DownloadsOf(a) ==
    IF a <= Len(Records) THEN Records[a].downloads
    ELSE IF a = attempt THEN attempt_details.downloads
    ELSE <<>>

\* The number of artifacts retrieved in attempt a if it has been reviewed
ReviewedIn(a) == IF StepsOf(a, {"review"}) # {} THEN Len(DownloadsOf(a)) ELSE 0

\* C27: songs_kept + songs_deleted <= total_songs_reviewed <=
\* total_songs_generated <= 6; total_songs_generated is twice the number of
\* attempts whose generation succeeded; total_songs_reviewed is the number
\* of artifacts retrieved in the attempts that were reviewed; no counter
\* ever decreases.
C27_CounterBounds ==
    /\ [](/\ workflow_details.songs_kept + workflow_details.songs_deleted
                <= workflow_details.total_songs_reviewed
          /\ workflow_details.total_songs_reviewed <= workflow_details.total_songs_generated
          /\ workflow_details.total_songs_generated <= 6
          /\ workflow_details.total_songs_generated = 2 * Cardinality(GenerationSucceeded)
          /\ workflow_details.total_songs_reviewed
                = ReviewedIn(1) + ReviewedIn(2) + ReviewedIn(3)
          /\ workflow_details.total_songs_reviewed
                = Cardinality({i \in LogIndex : log[i].op = "review"}))
    /\ [][/\ workflow_details'.songs_kept >= workflow_details.songs_kept
          /\ workflow_details'.songs_deleted >= workflow_details.songs_deleted
          /\ workflow_details'.total_songs_reviewed >= workflow_details.total_songs_reviewed
          /\ workflow_details'.total_songs_generated >= workflow_details.total_songs_generated
         ]_vars

C27_Witness ==
    /\ pc = "done"
    /\ workflow_details.total_songs_generated = 6
    /\ workflow_details.total_songs_reviewed = 5
    /\ workflow_details.songs_deleted = 3
    /\ workflow_details.songs_kept = 2

\* C28: every returned result reports in final_songs_count the value of
\* songs_kept at the return; good_songs is the same number when the run
\* ended with an approved song and 0 in every other result that has it.
C28_ResultAgrees ==
    pc = "done" =>
        /\ result.final_songs_count = workflow_details.songs_kept
        /\ Succeeded =>
              result.good_songs = workflow_details.songs_kept /\ result.good_songs > 0
        /\ (~Succeeded /\ result.success) => result.good_songs = 0
        /\ ~result.success => workflow_details.songs_kept = 0

C28_Witness ==
    /\ pc = "done"
    /\ ~Succeeded
    /\ result.success
    /\ result.final_songs_count = 2
    /\ workflow_details.songs_deleted = 4

-----------------------------------------------------------------------------
(* Properties of the routers and of the fail-safe handler (harness) *)

HistIndex == 1..Len(hist)

\* C4: the fail-safe handler moves every candidate that exists in staging
\* to final storage under its marked name, counts it in moved_count, and
\* does nothing else: no deletion, no file under an unmarked name.
C4_FailsafePromotion ==
    \A h \in HistIndex :
        hist[h].op = "failsafe" =>
            LET e == hist[h]
                present == {final_attempt_songs[i].file_path :
                               i \in PresentIn(e.before, final_attempt_songs)}
            IN /\ \A p \in present : MarkedName(p) \in e.res.fs /\ p \notin e.res.fs
               /\ e.res.moved_count = Cardinality(present)
               /\ e.res.removed = e.removed_before
               /\ e.res.fs = (e.before \ present) \cup {MarkedName(p) : p \in present}
               /\ \A p \in present : OwnName(p) \notin e.res.fs

C4_Witness ==
    \E h \in HistIndex :
        /\ hist[h].op = "failsafe"
        /\ hist[h].res.moved_count >= 1
        /\ hist[h].res.error_count >= 1

\* C5: the normal-mode router, for every artifact of the batch that is in
\* staging: continue moves it to final storage and counts it as kept,
\* re-roll removes it (it is in neither place) and counts it as deleted.
C5_NormalRouting ==
    \A h \in HistIndex :
        hist[h].op = "route" =>
            LET e == hist[h] IN
            /\ \A i \in WithVerdict(review_results, e.before, "continue") :
                   /\ OwnName(review_results[i].file_path) \in e.res.fs
                   /\ review_results[i].file_path \notin e.res.fs
            /\ \A i \in WithVerdict(review_results, e.before, "re-roll") :
                   /\ review_results[i].file_path \notin e.res.fs
                   /\ OwnName(review_results[i].file_path) \notin e.res.fs
                   /\ MarkedName(review_results[i].file_path) \notin e.res.fs
            /\ e.res.kept_count = Cardinality(WithVerdict(review_results, e.before, "continue"))
            /\ e.res.deleted_count = Cardinality(WithVerdict(review_results, e.before, "re-roll"))

C5_Witness ==
    \E h \in HistIndex :
        /\ hist[h].op = "route"
        /\ hist[h].res.kept_count = 1
        /\ hist[h].res.deleted_count = 1

\* C8: a second fail-safe call right after a first one on the same
\* candidates returns (every candidate is reported as a missing file),
\* moves nothing and leaves the filesystem as it was.
C8_FailsafeIdempotent ==
    \A h \in HistIndex :
        (h > 1 /\ hist[h].op = "failsafe" /\ hist[h - 1].op = "failsafe") =>
            /\ hist[h].res.moved_count = 0
            /\ hist[h].res.error_count = Len(final_attempt_songs)
            /\ hist[h].res.fs = hist[h].before
            /\ hist[h].res.removed = hist[h].removed_before

C8_Witness ==
    \E h \in HistIndex :
        /\ h > 1
        /\ hist[h].op = "failsafe"
        /\ hist[h - 1].op = "failsafe"
        /\ hist[h - 1].res.moved_count >= 1

\* The routing calls of the harness
RoutingCalls == {h \in HistIndex : hist[h].op \in {"route", "route_final"}}

\* The preserved count a routing call returned (the normal mode has none)
PreservedOf(e) == IF e.op = "route_final" THEN e.res.preserved_count ELSE 0

\* The records of the batch whose verdict is neither continue nor re-roll
OtherVerdict == {i \in 1..Len(review_results) :
                    review_results[i].verdict \notin {"continue", "re-roll"}}

\* Every artifact of the batch was in staging when the call was made
AllPresent(e) == PresentIn(e.before, review_results) = 1..Len(review_results)

\* C17 as stated: every artifact routed by a router call, whatever its
\* verdict and in either mode, is counted in exactly one of kept, deleted
\* and preserved: the three counts add up to the number of routed artifacts.
C17_AsStated ==
    \A h \in RoutingCalls :
        AllPresent(hist[h]) =>
            hist[h].res.kept_count + hist[h].res.deleted_count + PreservedOf(hist[h])
                = Len(review_results)

\* C17 (amended): a routed artifact is counted at most once: kept when it is
\* in staging with verdict continue; deleted (normal mode) or preserved
\* (final mode) when it is in staging with verdict re-roll; preserved when
\* the final mode sees any other verdict; and nowhere when the normal mode
\* sees any other verdict or a continue/re-roll artifact is not in staging.
C17_Accounting ==
    \A h \in RoutingCalls :
        LET e == hist[h]
            cont == Cardinality(WithVerdict(review_results, e.before, "continue"))
            reroll == Cardinality(WithVerdict(review_results, e.before, "re-roll"))
            other == Cardinality(OtherVerdict)
        IN  /\ e.res.kept_count = cont
            /\ e.op = "route" => e.res.deleted_count = reroll
            /\ e.op = "route_final" =>
                  /\ e.res.deleted_count = 0
                  /\ e.res.preserved_count = reroll + other
            /\ e.res.kept_count + e.res.deleted_count + PreservedOf(e) <= Len(review_results)

C17_Witness ==
    \E h \in RoutingCalls :
        /\ hist[h].op = "route"
        /\ AllPresent(hist[h])
        /\ Len(review_results) = 2
        /\ review_results[1].verdict = "error"
        /\ review_results[2].verdict = "continue"
        /\ hist[h].res.kept_count + hist[h].res.deleted_count = 1

\* The artifacts of the batch with verdict continue or re-roll whose
\* staging path did not exist when the call was made
Skewed(e) ==
    {i \in 1..Len(review_results) :
        /\ review_results[i].verdict \in {"continue", "re-roll"}
        /\ review_results[i].file_path \notin e.before}

\* The staging paths of the records with the given indices
PathsAt(I) == {review_results[i].file_path : i \in I}

\* C20: a router call on a batch with an artifact whose staging path is
\* missing returns; it touches no file for that artifact and counts it
\* nowhere; and it routes the rest of the batch as usual: the present
\* continue artifacts are moved and counted kept, the present re-roll
\* artifacts are removed and counted deleted (normal mode) or left alone
\* (final mode).
C20_SkewSkipped ==
    \A h \in RoutingCalls :
        LET e == hist[h]
            cont == WithVerdict(review_results, e.before, "continue")
            reroll == WithVerdict(review_results, e.before, "re-roll")
            gone == IF e.op = "route" THEN PathsAt(reroll) ELSE {}
        IN  Skewed(e) # {} =>
              /\ e.res.fs = (e.before \ (PathsAt(cont) \cup gone))
                               \cup {OwnName(p) : p \in PathsAt(cont)}
              /\ e.res.removed = e.removed_before \cup gone
              /\ e.res.kept_count = Cardinality(cont)
              /\ e.res.deleted_count = Cardinality(gone)
              /\ \A p \in PathsAt(Skewed(e)) :
                    /\ p \notin e.res.fs
                    /\ p \in e.res.removed => p \in e.removed_before
                    /\ OwnName(p) \in e.res.fs => OwnName(p) \in e.before

C20_Witness ==
    /\ Len(hist) = 2
    /\ hist[1].op = "route_final"
    /\ hist[2].op = "route"
    /\ Len(review_results) = 2
    /\ review_results[1].verdict = "continue"
    /\ review_results[2].verdict = "re-roll"
    /\ Skewed(hist[1]) = {1}
    /\ Skewed(hist[2]) = {1}
    /\ hist[1].res.preserved_count = 1
    /\ hist[2].res.deleted_count = 1
    /\ review_results[2].file_path \in hist[2].res.removed

-----------------------------------------------------------------------------
(* Properties of two concurrent runs *)

\* The calls made so far: <<r, i>> is the i-th call of run r
PairCalls == {c \in RunIds \X (1..2) : c[2] <= Len(runs[c[1]].calls)}

CallOf(c) == runs[c[1]].calls[c[2]]

\* The staged files a call moved to final storage under their own name
MovedBy(e) ==
    {p \in PairPaths : p \in e.before /\ p \notin e.res.fs
                         /\ OwnName(p) \in e.res.fs /\ OwnName(p) \notin e.before}

\* The staged files a call moved to final storage under the marked name
PromotedBy(e) ==
    {p \in PairPaths : p \in e.before /\ p \notin e.res.fs
                         /\ MarkedName(p) \in e.res.fs /\ MarkedName(p) \notin e.before}

\* The files a call deleted
DeletedBy(e) == e.res.removed \ e.removed_before

TouchedBy(e) == MovedBy(e) \cup PromotedBy(e) \cup DeletedBy(e)

\* What the calls of run r counted
KeptOf(r) == IF Len(runs[r].calls) >= 1 THEN runs[r].calls[1].res.kept_count ELSE 0

DeletedOf(r) == IF Len(runs[r].calls) >= 1 THEN runs[r].calls[1].res.deleted_count ELSE 0

PromotedOf(r) == IF Len(runs[r].calls) >= 2 THEN runs[r].calls[2].res.moved_count ELSE 0

\* The records of run r with verdict v whose file was there at call e
PresentWith(r, e, v) ==
    {i \in 1..Len(runs[r].reviews) :
        runs[r].reviews[i].verdict = v /\ runs[r].reviews[i].file_path \in e.before}

\* C23: with two runs interleaved call by call on shared directories, each
\* call counts exactly the files it moved or deleted itself, no file is
\* moved or deleted (hence counted) by two calls, a call whose file is
\* already gone returns having routed the files that are there, and the
\* counts of both runs add up to the files actually moved and deleted.
C23_NoDoubleCount ==
    /\ \A c \in PairCalls :
          LET e == CallOf(c) IN
          IF e.op = "failsafe"
          THEN /\ e.res.moved_count = Cardinality(PromotedBy(e))
               /\ MovedBy(e) = {}
               /\ DeletedBy(e) = {}
          ELSE /\ e.res.kept_count = Cardinality(MovedBy(e))
               /\ e.res.deleted_count = Cardinality(DeletedBy(e))
               /\ PromotedBy(e) = {}
               /\ e.res.kept_count = Cardinality(PresentWith(c[1], e, "continue"))
               /\ e.res.deleted_count =
                     IF e.op = "route"
                     THEN Cardinality(PresentWith(c[1], e, "re-roll")) ELSE 0
    /\ \A c, d \in PairCalls :
          c # d => TouchedBy(CallOf(c)) \cap TouchedBy(CallOf(d)) = {}
    /\ KeptOf(1) + KeptOf(2) = Cardinality({p \in PairPaths : OwnName(p) \in fs})
    /\ DeletedOf(1) + DeletedOf(2) = Cardinality(removed)
    /\ PromotedOf(1) + PromotedOf(2) = Cardinality({p \in PairPaths : MarkedName(p) \in fs})

C23_Witness ==
    /\ runs[1].pc = "done"
    /\ runs[2].pc = "done"
    /\ runs[1].reviews = runs[2].reviews
    /\ Len(runs[1].reviews) = 2
    /\ runs[1].reviews[1].verdict = "continue"
    /\ runs[1].reviews[2].verdict = "re-roll"
    /\ ~runs[1].last
    /\ ~runs[2].last
    /\ KeptOf(2) = 1
    /\ DeletedOf(2) = 1
    /\ KeptOf(1) = 0
    /\ DeletedOf(1) = 0

====
